---- MODULE Spec2Model ----
(***************************************************************************)
(* A model of the example scripts of the repository: the main() driver     *)
(* every script shares, the resilience and routing demos of the chains/    *)
(* and runnables/ scripts, the stateful Runnable classes, the conversation *)
(* loops of models/ and prompts/, and the parser cascades of               *)
(* structured_output/.                                                     *)
(***************************************************************************)
EXTENDS Integers, Sequences, FiniteSets, Bags, TLC

VARIABLES
    \* ---- main() of a script
    script,     \* which script runs (index into ScriptNames)
    dotenv,     \* GOOGLE_API_KEY in the .env file: "none", "empty" or "set"
    apiKey,     \* GOOGLE_API_KEY in os.environ: "unset", "empty" or "set"
    numpyOk,    \* whether `import numpy` succeeds (models/03 only)
    mpc,        \* position of main()
    demo,       \* 1-based index of the demo main() is at
    pending,    \* the exception in flight ("none" when there is none)
    modelUsed,  \* a model object has been constructed or called
    log,        \* what main() did so far: a sequence of [ev, k] records
    \* ---- the resilience demos (robust_api_client, fallbacks_example, retry_example)
    rdemo,      \* which demo runs: "robust", "fallbacks", "retry" or "parallel"
    rpc,        \* position inside the demo
    calls,      \* the calls of the operation under the current invoke: [op, by, out]
    result,     \* what the current invoke returned or raised
    maxRetries, \* RobustAPIClient.max_retries
    metrics,    \* RobustAPIClient.metrics
    reqIdx,     \* i of `for i in range(5)` in robust_api_client
    attempt,    \* the loop variable of the retry loop in progress
    sleeps,     \* time.sleep() calls of the current invoke, in tenths of a second
    counter,    \* attempt_count["value"] of retry_example
    firstError, \* first_error of the fallback chain in progress
    \* ---- router.invoke of multi_condition_routing (chains/04)
    rtIn,       \* the input dict: [has_text, text, expected]
    rtPc,       \* position of RunnableBranch.invoke
    rtIdx,      \* index of the branch whose condition comes next
    rtEvaluated,\* the conditions evaluated so far: [cond, val]
    rtInvoked,  \* the chains invoked so far: [chain, template, text]
    rtOut,      \* what router.invoke returned or raised
    \* ---- the stateful Runnable classes: StreamingChat (05), CachingRunnable (04)
    stObj,      \* the object under test: "chat" or "cache"
    stCalls,    \* number of calls made on it so far
    history,    \* StreamingChat.history: a sequence of texts
    histRoles,  \* who wrote each entry of history: "user" or "assistant"
    gens,       \* the live generators of StreamingChat.stream: a bag of [state, msg, full]
    chatLog,    \* the requests sent to the model: a set of [msg, hist, roles, prompt]
    cache,      \* CachingRunnable.cache: cache key -> cached result
    cacheLog,   \* the invocations of CachingRunnable: a set of [input, out, hit]
    cacheTrace, \* the calls on the CachingRunnable in order: [op, input, out, wrapped]
    \* ---- the conversation loops: interactive_chat_session (models/02),
    \*      chatbot_with_memory and multi_turn_conversation (prompts/02)
    cvFn,       \* which function runs: "interactive", "memory" or "multi"
    cvQuestions,\* demo_questions / user_messages / conversation: a sequence of texts
    cvIdx,      \* 1-based index of the question the for loop is at
    cvPc,       \* position: "loop", "call", "done" or "raised"
    cvHistory,  \* conversation_history / history: a sequence of messages
    cvMessages, \* the message list handed to chat.invoke
    cvCalls,    \* the model calls so far: [messages, out]
    \* ---- the parser cascades: validation_and_fallbacks and
    \*      error_handling_strategies (structured_output/03)
    vFn,        \* which function runs: "cascade" or "strategies"
    vInputs,    \* the text handed to the parsers in each test case
    vIdx,       \* 1-based index of the test case the for loop is at
    vPc,        \* position: "loop", "strict", "lenient", "done" or "raised"
    vResult,    \* the local variable `result`
    vLog        \* the finished test cases: [strict, lenient, source, result]

mainVars == <<script, dotenv, apiKey, numpyOk, mpc, demo, pending, modelUsed, log>>

resVars == <<rdemo, rpc, calls, result, maxRetries, metrics, reqIdx, attempt,
             sleeps, counter, firstError>>

routerVars == <<rtIn, rtPc, rtIdx, rtEvaluated, rtInvoked, rtOut>>

stateVars == <<stObj, stCalls, history, histRoles, gens, chatLog, cache, cacheLog, cacheTrace>>

convVars == <<cvFn, cvQuestions, cvIdx, cvPc, cvHistory, cvMessages, cvCalls>>

validVars == <<vFn, vInputs, vIdx, vPc, vResult, vLog>>

vars == <<mainVars, resVars, routerVars, stateVars, convVars, validVars>>

notMain == <<resVars, routerVars, stateVars, convVars, validVars>>
notRes == <<mainVars, routerVars, stateVars, convVars, validVars>>
notRouter == <<mainVars, resVars, stateVars, convVars, validVars>>
notState == <<mainVars, resVars, routerVars, convVars, validVars>>
notConv == <<mainVars, resVars, routerVars, stateVars, validVars>>
notValid == <<mainVars, resVars, routerVars, stateVars, convVars>>

-----------------------------------------------------------------------------
(* Python's exception classes, as far as the scripts raise or catch them.  *)

ExcParent ==
    [ BaseException     |-> "object",
      Exception         |-> "BaseException",
      KeyboardInterrupt |-> "BaseException",
      OSError           |-> "Exception",
      ConnectionError   |-> "OSError",
      ValueError        |-> "Exception",
      AttributeError    |-> "Exception",
      EOFError          |-> "Exception",
      LookupError       |-> "Exception",
      KeyError          |-> "LookupError",
      OutputParserException |-> "ValueError",
      ImportError       |-> "Exception",
      ModuleNotFoundError |-> "ImportError" ]

ExcClasses == DOMAIN ExcParent

\* issubclass(e, cls)
RECURSIVE IsSubclass(_, _)
IsSubclass(e, cls) ==
    IF e = cls THEN TRUE
    ELSE IF e \notin ExcClasses THEN FALSE
    ELSE IsSubclass(ExcParent[e], cls)

-----------------------------------------------------------------------------
(* main(): the API key check, the demos in order, the pauses, the banner.  *)

ScriptNames ==
    << "chains/01_lcel_basics", "chains/02_sequential_chains",
       "chains/03_parallel_chains", "chains/04_conditional_chains",
       "chains/05_practical_chains", "models/01_llm_example",
       "models/02_chat_model_example", "models/03_embeddings_example",
       "prompts/01_basic_prompts", "prompts/02_chat_prompts",
       "prompts/03_advanced_prompts", "prompts/04_practical_examples",
       "runnables/01_runnable_interface", "runnables/02_runnable_sequence",
       "runnables/03_runnable_parallel", "runnables/04_advanced_runnables",
       "runnables/05_practical_runnables",
       "structured_output/01_with_structured_output",
       "structured_output/02_output_parsers",
       "structured_output/03_advanced_structured",
       "structured_output/04_practical_structured" >>

\* The number of demo functions main() of each script calls, in ScriptNames order.
DemoCount == << 8, 7, 7, 8, 6, 4, 6, 5, 8, 7, 7, 6, 8, 8, 8, 8, 6, 8, 9, 8, 6 >>

Scripts == 1..Len(ScriptNames)

\* Only models/03_embeddings_example.py imports numpy: at module level
\* (`import numpy as np`, line 9) and again inside main() before its demos.
HasNumpyCheck(s) == ScriptNames[s] = "models/03_embeddings_example"

\* What a demo function can raise: errors of the model call or of the demo's
\* own code, and KeyboardInterrupt when the user interrupts it.
DemoRaises == {"ConnectionError", "ValueError", "AttributeError", "KeyboardInterrupt"}

\* What input("Press Enter...") can raise: EOFError at the end of stdin,
\* KeyboardInterrupt when the read is interrupted.
InputRaises == {"EOFError", "KeyboardInterrupt"}

KeyMissingUnsetOnly(key) == key = "unset"

\* `if not os.getenv("GOOGLE_API_KEY")`: None and "" are both falsy.
KeyMissing(key) == key \in {"unset", "empty"}

CatchesValueErrorOnly(e) == IsSubclass(e, "ValueError")

\* `except Exception as e` of main()
Catches(e) == IsSubclass(e, "Exception")

AfterDemoAlwaysInput(s, k) == "input"

\* After demo k returned: input("Press Enter...") follows every demo but the last,
\* the banner follows the last.
AfterDemo(s, k) == IF k < DemoCount[s] THEN "input" ELSE "banner"

AfterHandlerContinues(s, k) == IF k < DemoCount[s] THEN "resume" ELSE "returned"

\* After the except block main() falls off its end.
AfterHandler(s, k) == "returned"

Ev(e, k) == [ev |-> e, k |-> k]

\* The resilience demos, not running.
IdleRes ==
    /\ rdemo = "none"
    /\ rpc = "idle"
    /\ calls = << >>
    /\ result = [kind |-> "none"]
    /\ maxRetries = 0
    /\ metrics = [calls |-> 0, failures |-> 0, retries |-> 0]
    /\ reqIdx = 0
    /\ attempt = 0
    /\ sleeps = << >>
    /\ counter = 0
    /\ firstError = "none"

\* The router, not running.
IdleRouter ==
    /\ rtIn = [has_text |-> FALSE, text |-> << >>, expected |-> ""]
    /\ rtPc = "idle"
    /\ rtIdx = 0
    /\ rtEvaluated = << >>
    /\ rtInvoked = << >>
    /\ rtOut = [kind |-> "none"]

\* No parser cascade running.
IdleValid ==
    /\ vFn = "none"
    /\ vInputs = << >>
    /\ vIdx = 0
    /\ vPc = "idle"
    /\ vResult = [kind |-> "unbound"]
    /\ vLog = << >>

\* No conversation loop running.
IdleConv ==
    /\ cvFn = "none"
    /\ cvQuestions = << >>
    /\ cvIdx = 0
    /\ cvPc = "idle"
    /\ cvHistory = << >>
    /\ cvMessages = << >>
    /\ cvCalls = << >>

\* No StreamingChat or CachingRunnable object under test.
IdleState ==
    /\ stObj = "none"
    /\ stCalls = 0
    /\ history = << >>
    /\ histRoles = << >>
    /\ gens = EmptyBag
    /\ chatLog = {}
    /\ cache = << >>
    /\ cacheLog = {}
    /\ cacheTrace = << >>

InitMain ==
    /\ IdleRes
    /\ IdleRouter
    /\ IdleState
    /\ IdleConv
    /\ IdleValid
    /\ script \in Scripts
    /\ dotenv \in {"none", "empty", "set"}
    /\ apiKey \in {"unset", "empty", "set"}
    /\ numpyOk \in BOOLEAN
    /\ (~HasNumpyCheck(script) => numpyOk)
    /\ mpc = "module"
    /\ demo = 0
    /\ pending = "none"
    /\ modelUsed = FALSE
    /\ log = << >>

\* load_dotenv(): a GOOGLE_API_KEY entry of the .env file is put into
\* os.environ unless the variable is already there (also when it is there
\* and empty); an empty entry sets it to the empty string.
LoadDotenv(env, file) == IF env = "unset" /\ file # "none" THEN file ELSE env

\* What a failing `import numpy as np` raises.
NumpyImportRaises == {"ModuleNotFoundError", "ImportError"}

\* The module-level statements run before main() is called: the imports and
\* load_dotenv().  In models/03 `import numpy as np` is one of the imports:
\* without numpy the script ends there and main() is never entered.
ImportModule ==
    /\ mpc = "module"
    /\ UNCHANGED notMain
    /\ IF HasNumpyCheck(script) /\ ~numpyOk
         THEN /\ log' = Append(log, Ev("import_error", 0))
              /\ \E e \in NumpyImportRaises : pending' = e
              /\ mpc' = "import_failed"
              /\ apiKey' = apiKey
         ELSE /\ log' = log
              /\ pending' = pending
              /\ mpc' = "entry"
              /\ apiKey' = LoadDotenv(apiKey, dotenv)
    /\ UNCHANGED <<script, dotenv, numpyOk, demo, modelUsed>>

\* The API key check at the top of main().
CheckApiKey ==
    /\ mpc = "entry"
    /\ UNCHANGED notMain
    /\ IF KeyMissing(apiKey)
         THEN /\ log' = Append(log, Ev("key_error", 0))
              /\ mpc' = "returned"
              /\ demo' = demo
         ELSE /\ log' = log
              /\ mpc' = IF HasNumpyCheck(script) THEN "numpy" ELSE "demo"
              /\ demo' = IF HasNumpyCheck(script) THEN demo ELSE 1
    /\ UNCHANGED <<script, dotenv, apiKey, numpyOk, pending, modelUsed>>

\* models/03: try: import numpy / except ImportError: print, return.  main()
\* runs only after the module-level import of numpy succeeded, so this import
\* finds numpy too.
CheckNumpy ==
    /\ mpc = "numpy"
    /\ UNCHANGED notMain
    /\ IF numpyOk
         THEN /\ mpc' = "demo"
              /\ demo' = 1
              /\ log' = log
         ELSE /\ mpc' = "returned"
              /\ demo' = demo
              /\ log' = Append(log, Ev("numpy_error", 0))
    /\ UNCHANGED <<script, dotenv, apiKey, numpyOk, pending, modelUsed>>

\* main() calls demo number `demo`; the demo may construct and call a model.
DemoStart ==
    /\ mpc = "demo"
    /\ UNCHANGED notMain
    /\ \E m \in BOOLEAN : modelUsed' = (modelUsed \/ m)
    /\ log' = Append(log, Ev("start", demo))
    /\ mpc' = "in_demo"
    /\ UNCHANGED <<script, dotenv, apiKey, numpyOk, demo, pending>>

\* The demo returns.
DemoReturn ==
    /\ mpc = "in_demo"
    /\ UNCHANGED notMain
    /\ log' = Append(log, Ev("ret", demo))
    /\ mpc' = AfterDemo(script, demo)
    /\ UNCHANGED <<script, dotenv, apiKey, numpyOk, demo, pending, modelUsed>>

\* The demo raises; the try block is left.
DemoRaise ==
    /\ mpc = "in_demo"
    /\ UNCHANGED notMain
    /\ \E e \in DemoRaises :
         /\ log' = Append(log, Ev("raise", demo))
         /\ pending' = e
         /\ mpc' = IF Catches(e) THEN "except" ELSE "propagated"
    /\ UNCHANGED <<script, dotenv, apiKey, numpyOk, demo, modelUsed>>

\* input("Press Enter to continue..."): a line arrives, stdin is at its end,
\* or the read is interrupted.
ReadStdin ==
    /\ mpc = "input"
    /\ UNCHANGED notMain
    /\ \/ /\ log' = Append(log, Ev("read", demo))
          /\ mpc' = "demo"
          /\ demo' = demo + 1
          /\ pending' = pending
       \/ \E e \in InputRaises :
            /\ log' = Append(log, Ev("read_raise", demo))
            /\ pending' = e
            /\ mpc' = IF Catches(e) THEN "except" ELSE "propagated"
            /\ demo' = demo
    /\ UNCHANGED <<script, dotenv, apiKey, numpyOk, modelUsed>>

\* The banner and the key takeaways at the end of the try block.
PrintBanner ==
    /\ mpc = "banner"
    /\ UNCHANGED notMain
    /\ log' = Append(log, Ev("banner", 0))
    /\ mpc' = "returned"
    /\ UNCHANGED <<script, dotenv, apiKey, numpyOk, demo, pending, modelUsed>>

\* except Exception as e: print(f"Error: {e}") [, traceback.print_exc()]
\* (a continuation "resume" would go on with the next demo; main() has none)
Handler ==
    /\ mpc = "except"
    /\ UNCHANGED notMain
    /\ log' = Append(log, Ev("print_error", 0))
    /\ pending' = "none"
    /\ LET to == AfterHandler(script, demo) IN
         /\ mpc' = IF to = "resume" THEN "demo" ELSE to
         /\ demo' = IF to = "resume" THEN demo + 1 ELSE demo
    /\ UNCHANGED <<script, dotenv, apiKey, numpyOk, modelUsed>>

NextMain ==
    \/ ImportModule
    \/ CheckApiKey
    \/ CheckNumpy
    \/ DemoStart
    \/ DemoReturn
    \/ DemoRaise
    \/ ReadStdin
    \/ PrintBanner
    \/ Handler

SpecMain == InitMain /\ [][NextMain]_vars

-----------------------------------------------------------------------------
(* Properties of main().                                                   *)

LogHas(e, k) == \E i \in DOMAIN log : log[i] = Ev(e, k)
LogHasEv(e) == \E i \in DOMAIN log : log[i].ev = e

\* C1: when GOOGLE_API_KEY is unset or empty in the environment main() finds
\* (os.environ once load_dotenv() has run), main() prints an error and returns
\* before any demo: no demo starts, no model is constructed or called, and
\* nothing is read from stdin.  (models/03 without numpy ends at its
\* module-level import: main() is not entered, and nothing of the above
\* happens either.)
C1_NoKeyNoDemo ==
    (mpc # "module" /\ apiKey \in {"unset", "empty"}) =>
        /\ modelUsed = FALSE
        /\ mpc \in {"import_failed", "entry", "returned"}
        /\ \A i \in DOMAIN log : log[i].ev \in {"key_error", "import_error"}
        /\ (mpc = "returned" => log = << Ev("key_error", 0) >>)
        /\ (mpc = "import_failed" => log = << Ev("import_error", 0) >>)

\* The variable is set but empty, which load_dotenv() leaves alone even with
\* a key in the .env file: main() has printed the error and returned.
C1_Witness ==
    /\ apiKey = "empty"
    /\ dotenv = "set"
    /\ mpc = "returned"
    /\ log = << Ev("key_error", 0) >>

\* C2 as stated: an exception raised by a demo is caught by main()'s except
\* clause and printed; it never propagates out of main(), so main() always
\* returns normally once the API key check has passed.
C2_DemoExceptionCaught ==
    /\ mpc # "propagated"
    /\ \A i \in DOMAIN log :
         log[i].ev = "raise" =>
            \/ i = Len(log) /\ mpc = "except" /\ pending \in DemoRaises
            \/ i < Len(log) /\ log[i + 1].ev = "print_error"

\* C2 amended: an exception raised by a demo (or by the 'Press Enter' read)
\* that is an Exception is caught by main()'s except clause and printed, and
\* main() returns normally; one that is not an Exception (KeyboardInterrupt)
\* is not caught and propagates out of main().
C2_ExceptionsCaughtInterruptsNot ==
    /\ mpc = "except" => IsSubclass(pending, "Exception")
    /\ mpc = "propagated" =>
          /\ pending \in DemoRaises \cup InputRaises
          /\ ~IsSubclass(pending, "Exception")
          /\ log[Len(log)].ev \in {"raise", "read_raise"}
    /\ \A i \in DOMAIN log :
         log[i].ev \in {"raise", "read_raise"} =>
            \/ i = Len(log) /\ mpc \in {"except", "propagated"}
            \/ i < Len(log) /\ log[i + 1].ev = "print_error"
    /\ \A i \in DOMAIN log :
         log[i].ev = "print_error" => (i = Len(log) /\ mpc = "returned")

C2_Witness ==
    /\ mpc = "returned"
    /\ Len(log) >= 2
    /\ log[Len(log) - 1].ev = "raise"
    /\ log[Len(log)].ev = "print_error"

\* C3 as stated: after main() has caught the exception of demo k, the demos
\* that follow demo k are still run.
C3_LaterDemosStillRun ==
    \A i \in DOMAIN log :
        (log[i].ev = "raise" /\ mpc = "returned") =>
            \A j \in (log[i].k + 1)..DemoCount[script] : LogHas("start", j)

\* C3 amended: a demo that raises ends the sequence: after the raise main()
\* only prints the error and returns (or, for an exception it does not catch,
\* is left by it); no later demo starts, nothing more is read from stdin and
\* the banner is not printed.
C3_RaiseEndsSequence ==
    \A i \in DOMAIN log :
        log[i].ev = "raise" =>
            /\ mpc \in {"except", "returned", "propagated"}
            /\ \A j \in DOMAIN log : j > i => (j = i + 1 /\ log[j].ev = "print_error")
            /\ \A j \in (log[i].k + 1)..DemoCount[script] : ~LogHas("start", j)

C3_Witness ==
    /\ mpc = "returned"
    /\ \E i \in DOMAIN log : log[i].ev = "raise" /\ log[i].k < DemoCount[script]

\* C4: the demos run in their listed order, one at a time; demo k+1 starts only
\* after demo k returned and exactly one stdin read completed; no stdin read
\* follows the last demo; the banner is printed only if every demo returned.
C4_OrderedPacedDemos ==
    /\ \A i \in DOMAIN log :
         /\ log[i].ev = "start" =>
               /\ log[i].k \in 1..DemoCount[script]
               /\ IF log[i].k = 1
                    THEN i = 1
                    ELSE /\ i >= 3
                         /\ log[i - 1] = Ev("read", log[i].k - 1)
                         /\ log[i - 2] = Ev("ret", log[i].k - 1)
               /\ i < Len(log) => log[i + 1] \in {Ev("ret", log[i].k), Ev("raise", log[i].k)}
         /\ log[i].ev \in {"read", "read_raise"} =>
               /\ log[i].k < DemoCount[script]
               /\ i >= 2
               /\ log[i - 1] = Ev("ret", log[i].k)
         /\ log[i].ev = "ret" =>
               /\ i >= 2
               /\ log[i - 1] = Ev("start", log[i].k)
         /\ log[i].ev = "banner" =>
               /\ i = Len(log)
               /\ \A k \in 1..DemoCount[script] : LogHas("ret", k)
               /\ ~LogHasEv("raise")
               /\ ~LogHasEv("read_raise")
    /\ mpc = "in_demo" => log[Len(log)] = Ev("start", demo)

C4_Witness ==
    /\ mpc = "returned"
    /\ LogHasEv("banner")
    /\ Len(log) = 3 * DemoCount[script]
    /\ Cardinality({i \in DOMAIN log : log[i].ev = "read"}) = DemoCount[script] - 1

-----------------------------------------------------------------------------
(* The resilience demos of runnables/: RobustAPIClient (05),                *)
(* fallbacks_example and retry_example (04), error_handling (03).          *)

\* The main() driver, not running.
IdleMain ==
    /\ script = 1
    /\ dotenv = "none"
    /\ apiKey = "set"
    /\ numpyOk = TRUE
    /\ mpc = "idle"
    /\ demo = 0
    /\ pending = "none"
    /\ modelUsed = FALSE
    /\ log = << >>

\* Largest max_retries the model constructs RobustAPIClient with.
MaxRetriesBound == 3

\* `for i in range(5)` of robust_api_client
RobustRequests == 5

RECURSIVE Pow2(_)
Pow2(n) == IF n = 0 THEN 1 ELSE 2 * Pow2(n - 1)

\* A call of an operation: who made it ("direct" for the first call of an
\* invoke, "repo_loop" or "framework" for a re-attempt) and how it ended
\* ("ok", or the class of the exception it raised).
Call(op, by, out) == [op |-> op, by |-> by, out |-> out]

Ended(o) == IF o.kind = "ret" THEN "ok" ELSE o.val

Ret(v) == [kind |-> "ret", val |-> v]
Raised(e) == [kind |-> "raise", val |-> e]
NoResult == [kind |-> "none"]

\* The dicts RobustAPIClient.invoke returns.
RobustSuccess(i, n) ==
    Ret([status |-> "success", data |-> <<"Processed: request_", i>>, attempt |-> n,
         error |-> "", fallback |-> ""])
RobustFallback(e) ==
    Ret([status |-> "error", data |-> << >>, attempt |-> 0,
         error |-> e, fallback |-> "Using cached data"])
RobustExceeded ==
    Ret([status |-> "error", data |-> << >>, attempt |-> 0,
         error |-> "Max retries exceeded", fallback |-> ""])

\* `except ConnectionError as e` of RobustAPIClient.invoke
RobustCatches(e) == IsSubclass(e, "ConnectionError")

IsLastAttemptOffByOne(a, n) == a = n

\* `if attempt == self.max_retries - 1`
IsLastAttempt(a, n) == a = n - 1

\* `for attempt in range(self.max_retries)`: is there an iteration for a?
InRange(a, n) == a < n

InitRes ==
    /\ IdleMain
    /\ IdleRouter
    /\ IdleState
    /\ IdleConv
    /\ IdleValid
    /\ rdemo \in {"robust", "fallbacks", "retry", "parallel"}
    /\ rpc = "begin"
    /\ calls = << >>
    /\ result = NoResult
    /\ maxRetries \in IF rdemo = "robust" THEN 0..MaxRetriesBound ELSE {0}
    /\ metrics = [calls |-> 0, failures |-> 0, retries |-> 0]
    /\ reqIdx = 0
    /\ attempt = 0
    /\ sleeps = << >>
    /\ counter = 0
    /\ firstError = "none"

\* robust_api_client: the next client.invoke({"data": f"request_{i}"}) starts.
RobustInvoke ==
    /\ rdemo = "robust"
    /\ rpc = "begin"
    /\ reqIdx < RobustRequests
    /\ metrics' = [metrics EXCEPT !.calls = @ + 1]
    /\ attempt' = 0
    /\ calls' = << >>
    /\ sleeps' = << >>
    /\ IF InRange(0, maxRetries)
         THEN /\ rpc' = "attempt"
              /\ result' = NoResult
         ELSE /\ rpc' = "returned"
              /\ result' = RobustExceeded
    /\ UNCHANGED <<rdemo, maxRetries, reqIdx, counter, firstError>>
    /\ UNCHANGED notRes

\* One iteration of the for loop of RobustAPIClient.invoke: the simulated API
\* call succeeds, or raises ConnectionError (random.random() < 0.3).
RobustAttempt ==
    /\ rdemo = "robust"
    /\ rpc = "attempt"
    /\ \E out \in {"ok", "ConnectionError"} :
         /\ calls' = Append(calls, Call("api_call", IF attempt = 0 THEN "direct" ELSE "repo_loop", out))
         /\ IF out = "ok"
              THEN /\ result' = RobustSuccess(reqIdx, attempt + 1)
                   /\ rpc' = "returned"
                   /\ UNCHANGED <<metrics, attempt, sleeps>>
              ELSE IF ~RobustCatches(out)
              THEN /\ result' = Raised(out)
                   /\ rpc' = "raised"
                   /\ UNCHANGED <<metrics, attempt, sleeps>>
              ELSE IF IsLastAttempt(attempt, maxRetries)
              THEN /\ metrics' = [metrics EXCEPT !.retries = @ + 1, !.failures = @ + 1]
                   /\ result' = RobustFallback("Network timeout")
                   /\ rpc' = "returned"
                   /\ UNCHANGED <<attempt, sleeps>>
              ELSE /\ metrics' = [metrics EXCEPT !.retries = @ + 1]
                   /\ sleeps' = Append(sleeps, Pow2(attempt))
                   /\ attempt' = attempt + 1
                   /\ IF InRange(attempt + 1, maxRetries)
                        THEN /\ rpc' = "attempt"
                             /\ result' = result
                        ELSE /\ rpc' = "returned"
                             /\ result' = RobustExceeded
    /\ UNCHANGED <<rdemo, maxRetries, reqIdx, counter, firstError>>
    /\ UNCHANGED notRes

\* robust_api_client prints the request's status and goes on to the next request.
RobustNext ==
    /\ rdemo = "robust"
    /\ rpc = "returned"
    /\ reqIdx' = reqIdx + 1
    /\ rpc' = IF reqIdx + 1 < RobustRequests THEN "begin" ELSE "metrics"
    /\ UNCHANGED <<rdemo, calls, result, maxRetries, metrics, attempt, sleeps, counter, firstError>>
    /\ UNCHANGED notRes

\* robust_api_client prints client.metrics and returns.
RobustMetrics ==
    /\ rdemo = "robust"
    /\ rpc = "metrics"
    /\ rpc' = "done"
    /\ UNCHANGED <<rdemo, calls, result, maxRetries, metrics, reqIdx, attempt, sleeps, counter, firstError>>
    /\ UNCHANGED notRes

\* ---- fallbacks_example

WhileGuardFour(a, r) == a < 4 /\ r.kind # "ret"

\* `while attempts < 3 and not success`
WhileGuard(a, r) == a < 3 /\ r.kind # "ret"

\* What each function of the demos can do when called.
OpOutcomes(op) ==
    CASE op = "unreliable_operation" -> {Ret("Success!"), Raised("ConnectionError")}
      [] op = "fallback_operation"   -> {Ret("Fallback result")}
      [] op = "primary"              -> {Raised("ValueError")}
      [] op = "fallback1"            -> {Raised("ValueError")}
      [] op = "fallback2"            -> {Ret("Fallback 2 succeeded")}
      [] op = "primary_chain"        -> {Ret("model text"), Raised("Exception")}
      [] op = "simple_fallback"      -> {Ret("Simple explanation: LCEL is important")}
      [] op = "selective_failure"    -> {Raised("ConnectionError"), Raised("ValueError")}

MultiFallbackNoLast == <<"primary", "fallback1">>

\* multi_fallback: RunnableLambda(primary).with_fallbacks([fallback1, fallback2])
MultiFallback == <<"primary", "fallback1", "fallback2">>

\* safe_chain: unreliable_chain.with_fallbacks([RunnableLambda(fallback_operation)])
SafeChain == <<"unreliable_operation", "fallback_operation">>

\* robust_chain: primary_chain.with_fallbacks([simple_fallback])
ModelFallback == <<"primary_chain", "simple_fallback">>

\* The runnables of the fallback chain invoked at position p, in the order tried.
FbChain(p) ==
    CASE p = "safe"  -> SafeChain
      [] p = "multi" -> MultiFallback
      [] p = "model" -> ModelFallback

\* with_fallbacks() is called without exceptions_to_handle: the default (Exception,).
FbHandles(e) == IsSubclass(e, "Exception")

\* The position that follows p in fallbacks_example.
FbAfter(p) ==
    CASE p = "safe"  -> "multi"
      [] p = "multi" -> "model"
      [] p = "model" -> "done"

\* Step 1 of fallbacks_example: one iteration of the hand-written while loop
\* around unreliable_chain.invoke.
FbWhileIter ==
    /\ rdemo = "fallbacks"
    /\ rpc \in {"begin", "while"}
    /\ WhileGuard(attempt, result)
    /\ \E out \in OpOutcomes("unreliable_operation") :
         /\ calls' = Append(calls, Call("unreliable_operation",
                                        IF calls = << >> THEN "direct" ELSE "repo_loop",
                                        Ended(out)))
         /\ IF out.kind = "ret"
              THEN /\ result' = out
                   /\ attempt' = attempt
              ELSE /\ result' = result
                   /\ attempt' = attempt + 1
    /\ rpc' = "while"
    /\ UNCHANGED <<rdemo, maxRetries, metrics, reqIdx, sleeps, counter, firstError>>
    /\ UNCHANGED notRes

\* The while loop ends; safe_chain.invoke comes next.
FbWhileExit ==
    /\ rdemo = "fallbacks"
    /\ rpc = "while"
    /\ ~WhileGuard(attempt, result)
    /\ rpc' = "safe"
    /\ attempt' = 0
    /\ calls' = << >>
    /\ result' = NoResult
    /\ firstError' = "none"
    /\ UNCHANGED <<rdemo, maxRetries, metrics, reqIdx, sleeps, counter>>
    /\ UNCHANGED notRes

\* RunnableWithFallbacks.invoke: the next runnable of the chain is tried; its
\* output is returned, or its exception is handled and the next one is tried;
\* when none is left the first error is raised.
FbStep ==
    /\ rdemo = "fallbacks"
    /\ rpc \in {"safe", "multi", "model"}
    /\ result = NoResult
    /\ LET chain == FbChain(rpc)
           op == chain[attempt + 1]
       IN \E out \in OpOutcomes(op) :
            /\ calls' = Append(calls, Call(op, IF attempt = 0 THEN "direct" ELSE "framework", Ended(out)))
            /\ IF out.kind = "ret"
                 THEN /\ result' = out
                      /\ UNCHANGED <<attempt, firstError>>
                 ELSE IF ~FbHandles(out.val)
                 THEN /\ result' = out
                      /\ UNCHANGED <<attempt, firstError>>
                 ELSE /\ firstError' = IF firstError = "none" THEN out.val ELSE firstError
                      /\ attempt' = attempt + 1
                      /\ result' = IF attempt + 1 < Len(chain)
                                     THEN NoResult
                                     ELSE Raised(IF firstError = "none" THEN out.val ELSE firstError)
    /\ UNCHANGED <<rdemo, rpc, maxRetries, metrics, reqIdx, sleeps, counter>>
    /\ UNCHANGED notRes

\* The chain's invoke is over: its result is printed and the demo goes on, or
\* its exception leaves the demo.
FbAdvance ==
    /\ rdemo = "fallbacks"
    /\ rpc \in {"safe", "multi", "model"}
    /\ result # NoResult
    /\ IF result.kind = "ret"
         THEN /\ rpc' = FbAfter(rpc)
              /\ attempt' = 0
              /\ calls' = << >>
              /\ result' = NoResult
              /\ firstError' = "none"
         ELSE /\ rpc' = "demo_raised"
              /\ UNCHANGED <<attempt, calls, result, firstError>>
    /\ UNCHANGED <<rdemo, maxRetries, metrics, reqIdx, sleeps, counter>>
    /\ UNCHANGED notRes

\* ---- retry_example

FlakyFailsOffByOne(c) == c <= 3

\* flaky_operation: `if attempt_count["value"] < 3: raise ConnectionError`
FlakyFails(c) == c < 3

\* stop_after_attempt of the two with_retry() calls
StopAfter(p) ==
    CASE p = "retry1" -> 5
      [] p = "retry2" -> 3

\* retry_if_exception_type: the default (Exception,) for retry_chain,
\* (ConnectionError,) for selective_retry
RetryOn(p, e) ==
    CASE p = "retry1" -> IsSubclass(e, "Exception")
      [] p = "retry2" -> IsSubclass(e, "ConnectionError")

\* attempt_count["value"] = 0, then retry_chain is built.
RetryBegin ==
    /\ rdemo = "retry"
    /\ rpc = "begin"
    /\ counter' = 0
    /\ rpc' = "retry1"
    /\ UNCHANGED <<rdemo, calls, result, maxRetries, metrics, reqIdx, attempt, sleeps, firstError>>
    /\ UNCHANGED notRes

\* One attempt of a with_retry() chain: the wrapped function is called; its
\* value is returned, or its exception is retried while it is of a retried
\* type and attempts are left, and re-raised otherwise.
RetryAttempt ==
    /\ rdemo = "retry"
    /\ rpc \in {"retry1", "retry2"}
    /\ result = NoResult
    /\ \E out \in IF rpc = "retry1"
                    THEN {IF FlakyFails(counter + 1)
                            THEN Raised("ConnectionError")
                            ELSE Ret(<<"Success on attempt", counter + 1>>)}
                    ELSE OpOutcomes("selective_failure") :
         /\ counter' = IF rpc = "retry1" THEN counter + 1 ELSE counter
         /\ calls' = Append(calls, Call(IF rpc = "retry1" THEN "flaky_operation" ELSE "selective_failure",
                                        IF attempt = 0 THEN "direct" ELSE "framework",
                                        Ended(out)))
         /\ IF out.kind = "ret"
              THEN /\ result' = out
                   /\ attempt' = attempt
              ELSE IF RetryOn(rpc, out.val) /\ attempt + 1 < StopAfter(rpc)
              THEN /\ result' = NoResult
                   /\ attempt' = attempt + 1
              ELSE /\ result' = out
                   /\ attempt' = attempt
    /\ UNCHANGED <<rdemo, rpc, maxRetries, metrics, reqIdx, sleeps, firstError>>
    /\ UNCHANGED notRes

\* retry_chain.invoke is over: its result is printed (an exception leaves the
\* demo); selective_retry.invoke sits in a try/except Exception that prints.
RetryAdvance ==
    /\ rdemo = "retry"
    /\ rpc \in {"retry1", "retry2"}
    /\ result # NoResult
    /\ IF rpc = "retry1" /\ result.kind = "raise"
         THEN /\ rpc' = "demo_raised"
              /\ UNCHANGED <<attempt, calls, result>>
         ELSE /\ rpc' = IF rpc = "retry1" THEN "retry2" ELSE "done"
              /\ attempt' = 0
              /\ calls' = << >>
              /\ result' = NoResult
    /\ UNCHANGED <<rdemo, maxRetries, metrics, reqIdx, sleeps, counter, firstError>>
    /\ UNCHANGED notRes

\* ---- error_handling of 03_runnable_parallel.py

\* The position that follows p in error_handling.
ParallelAfter(p) ==
    CASE p = "par_error" -> "par_safe"
      [] p = "par_safe"  -> "par_try"
      [] p = "par_try"   -> "done"

\* <object>.invoke({"input": "test"}) at the next step of error_handling.
\* parallel_with_error, parallel_safe and parallel_trycatch are dict literals,
\* never wrapped in RunnableParallel, and a dict has no attribute `invoke`:
\* the attribute lookup raises AttributeError before any operation runs.
\* Step 1 sits in a try/except Exception that prints; step 2 does not, and its
\* exception leaves the demo.
ParallelInvoke ==
    /\ rdemo = "parallel"
    /\ rpc \in {"begin", "par_safe", "par_try"}
    /\ LET p == IF rpc = "begin" THEN "par_error" ELSE rpc
       IN /\ result' = Raised("AttributeError")
          /\ rpc' = IF p = "par_error" THEN ParallelAfter(p) ELSE "demo_raised"
    /\ UNCHANGED <<rdemo, calls, maxRetries, metrics, reqIdx, attempt, sleeps, counter, firstError>>
    /\ UNCHANGED notRes

NextRes ==
    \/ ParallelInvoke
    \/ RobustInvoke
    \/ RobustAttempt
    \/ RobustNext
    \/ RobustMetrics
    \/ FbWhileIter
    \/ FbWhileExit
    \/ FbStep
    \/ FbAdvance
    \/ RetryBegin
    \/ RetryAttempt
    \/ RetryAdvance

SpecRes == InitRes /\ [][NextRes]_vars

-----------------------------------------------------------------------------
(* Properties of the resilience demos.                                     *)

\* C5 as stated: no function or class of the repository re-attempts an
\* operation after it failed; every re-attempt is made by the framework.
C5_NoRepoReattempt ==
    \A i \in DOMAIN calls : calls[i].by # "repo_loop"

\* C5 amended: the repository has two retry loops of its own, both bounded:
\* the for loop of RobustAPIClient.invoke (at most max_retries attempts) and the
\* while loop of fallbacks_example (at most 3 attempts); each of their
\* re-attempts follows a failed attempt.  The re-attempts inside safe_chain,
\* multi_fallback, robust_chain, retry_chain and selective_retry are made by
\* the framework (with_fallbacks / with_retry).
C5_RepoRetryLoopsBounded ==
    \A i \in DOMAIN calls :
        /\ calls[i].by = "direct" <=> i = 1
        /\ calls[i].by = "repo_loop" =>
              /\ calls[i - 1].out \in ExcClasses
              /\ \/ rdemo = "robust" /\ calls[i].op = "api_call" /\ i <= maxRetries
                 \/ /\ rdemo = "fallbacks" /\ rpc = "while"
                    /\ calls[i].op = "unreliable_operation" /\ i <= 3
        /\ calls[i].by = "framework" =>
              /\ calls[i - 1].out \in ExcClasses
              /\ \/ rdemo = "fallbacks" /\ rpc \in {"safe", "multi", "model"}
                 \/ rdemo = "retry" /\ rpc \in {"retry1", "retry2"}

C5_Witness ==
    /\ rdemo = "fallbacks"
    /\ rpc = "while"
    /\ Len(calls) = 3
    /\ calls[3].by = "repo_loop"
    /\ calls[3].out = "ok"

\* C8: for max_retries >= 1 RobustAPIClient.invoke never raises and makes at
\* most max_retries attempts, none after a success; it returns 'success' with
\* 'attempt' the 1-based index of the first attempt that did not fail, and
\* 'error' with fallback 'Using cached data' exactly when all max_retries
\* attempts failed with ConnectionError.
C8_RobustInvoke ==
    (rdemo = "robust" /\ maxRetries >= 1) =>
        /\ rpc # "raised"
        /\ Len(calls) <= maxRetries
        /\ \A i \in DOMAIN calls : i < Len(calls) => calls[i].out = "ConnectionError"
        /\ rpc = "returned" =>
              /\ result.kind = "ret"
              /\ Len(calls) >= 1
              /\ result.val.status \in {"success", "error"}
              /\ result.val.status = "success" <=> calls[Len(calls)].out = "ok"
              /\ result.val.status = "success" =>
                    /\ result.val.attempt = Len(calls)
                    /\ result.val.data = <<"Processed: request_", reqIdx>>
              /\ result.val.status = "error" <=>
                    /\ Len(calls) = maxRetries
                    /\ \A i \in DOMAIN calls : calls[i].out = "ConnectionError"
              /\ result.val.status = "error" => result.val.fallback = "Using cached data"

C8_Witness ==
    /\ rdemo = "robust"
    /\ maxRetries = 3
    /\ rpc = "returned"
    /\ metrics.failures >= 1
    /\ result.val.status = "success"
    /\ result.val.attempt = 3

\* C9: a with_fallbacks chain whose last fallback cannot fail never raises:
\* safe_chain.invoke returns 'Success!' or 'Fallback result'; multi_fallback
\* tries primary, fallback1, fallback2 in that order, each only after the one
\* before raised, tries nothing after the first that returns, and returns
\* 'Fallback 2 succeeded'.  (In error_handling of 03_runnable_parallel.py the
\* with_fallbacks chain safe_error_op is never invoked: parallel_safe is a
\* dict, and parallel_safe.invoke raises AttributeError.)
C9_FallbacksSucceed ==
    /\ rdemo = "parallel" => calls = << >>
    /\ rdemo = "fallbacks" =>
        /\ rpc # "demo_raised"
        /\ result.kind # "raise"
        /\ rpc \in {"safe", "multi", "model"} =>
              /\ \A i \in DOMAIN calls :
                    /\ calls[i].op = FbChain(rpc)[i]
                    /\ i < Len(calls) => calls[i].out \in ExcClasses
              /\ result # NoResult => calls[Len(calls)].out = "ok"
        /\ (rpc = "safe" /\ result # NoResult) =>
              /\ result \in {Ret("Success!"), Ret("Fallback result")}
              /\ result = Ret("Fallback result") <=> Len(calls) = 2
        /\ rpc = "multi" =>
              /\ Len(calls) <= 3
              /\ \A i \in DOMAIN calls :
                    calls[i] = << Call("primary", "direct", "ValueError"),
                                  Call("fallback1", "framework", "ValueError"),
                                  Call("fallback2", "framework", "ok") >>[i]
              /\ result # NoResult =>
                    (result = Ret("Fallback 2 succeeded") /\ Len(calls) = 3)

C9_Witness ==
    /\ rdemo = "fallbacks"
    /\ rpc = "multi"
    /\ result = Ret("Fallback 2 succeeded")
    /\ Len(calls) = 3

\* C10: with the counter reset to 0 and stop_after_attempt=5, retry_chain.invoke
\* calls flaky_operation exactly 3 times (calls 1 and 2 raise ConnectionError,
\* call 3 returns), makes no call after the success and returns
\* 'Success on attempt 3' without raising.
C10_RetryThreeCalls ==
    (rdemo = "retry" /\ rpc = "retry1") =>
        /\ counter = Len(calls)
        /\ Len(calls) <= 3
        /\ \A i \in DOMAIN calls :
              calls[i] = << Call("flaky_operation", "direct", "ConnectionError"),
                            Call("flaky_operation", "framework", "ConnectionError"),
                            Call("flaky_operation", "framework", "ok") >>[i]
        /\ result # NoResult <=> Len(calls) = 3
        /\ result # NoResult => result = Ret(<<"Success on attempt", 3>>)

C10_Witness ==
    /\ rdemo = "retry"
    /\ rpc = "retry1"
    /\ counter = 3
    /\ result = Ret(<<"Success on attempt", 3>>)

-----------------------------------------------------------------------------
(* multi_condition_routing of chains/04_conditional_chains.py: the three   *)
(* conditions and the RunnableBranch router.  A text is a sequence of      *)
(* one-character strings.                                                  *)

\* Largest number of tokens a generated input text is made of.
MaxTokens == 2

UpperChars == <<"A", "B", "C", "D", "E", "F", "G", "H", "I", "J", "K", "L", "M", "N", "O", "P", "Q", "R", "S", "T", "U", "V", "W", "X", "Y", "Z">>
LowerChars == <<"a", "b", "c", "d", "e", "f", "g", "h", "i", "j", "k", "l", "m", "n", "o", "p", "q", "r", "s", "t", "u", "v", "w", "x", "y", "z">>

\* str.lower(), on the ASCII letters
LowerChar(c) ==
    IF \E i \in DOMAIN UpperChars : UpperChars[i] = c
      THEN LowerChars[CHOOSE i \in DOMAIN UpperChars : UpperChars[i] = c]
      ELSE c
Lower(text) == [i \in DOMAIN text |-> LowerChar(text[i])]

\* `word in text`
Contains(text, word) ==
    \E i \in 0..(Len(text) - Len(word)) : SubSeq(text, i + 1, i + Len(word)) = word

\* text.startswith(word)
StartsWith(text, word) ==
    /\ Len(text) >= Len(word)
    /\ SubSeq(text, 1, Len(word)) = word

\* x.get("text", "")
GetText(x) == IF x.has_text THEN x.text ELSE << >>

urgent_words ==
    { <<"u", "r", "g", "e", "n", "t">>,
    <<"e", "m", "e", "r", "g", "e", "n", "c", "y">>,
    <<"c", "r", "i", "t", "i", "c", "a", "l">>,
    <<"a", "s", "a", "p">>,
    <<"i", "m", "m", "e", "d", "i", "a", "t", "e", "l", "y">> }

question_prefixes ==
    { <<"w", "h", "a", "t">>,
    <<"h", "o", "w">>,
    <<"w", "h", "y">>,
    <<"w", "h", "e", "n">>,
    <<"w", "h", "e", "r", "e">>,
    <<"w", "h", "o">> }

feedback_words ==
    { <<"l", "o", "v", "e">>,
    <<"h", "a", "t", "e">>,
    <<"e", "x", "c", "e", "l", "l", "e", "n", "t">>,
    <<"t", "e", "r", "r", "i", "b", "l", "e">>,
    <<"s", "u", "g", "g", "e", "s", "t", "i", "o", "n">>,
    <<"f", "e", "e", "d", "b", "a", "c", "k">> }

is_urgentNoLower(x) == \E w \in urgent_words : Contains(GetText(x), w)

is_urgent(x) == \E w \in urgent_words : Contains(Lower(GetText(x)), w)

is_question(x) ==
    \/ Contains(GetText(x), <<"?">>)
    \/ \E w \in question_prefixes : StartsWith(Lower(GetText(x)), w)

is_feedback(x) == \E w \in feedback_words : Contains(Lower(GetText(x)), w)

\* The (condition, chain) pairs of RunnableBranch, in the order given.
Branches ==
    << [cond |-> "is_urgent",   chain |-> "urgent_chain"],
       [cond |-> "is_question", chain |-> "question_chain"],
       [cond |-> "is_feedback", chain |-> "feedback_chain"] >>

\* The default of RunnableBranch.
DefaultChain == "general_chain"

Cond(c, x) ==
    CASE c = "is_urgent"   -> is_urgent(x)
      [] c = "is_question" -> is_question(x)
      [] c = "is_feedback" -> is_feedback(x)

\* The prompt template of each chain, up to its {text} placeholder.
ChainTemplate(chain) ==
    CASE chain = "urgent_chain"   -> "URGENT - Handle immediately: "
      [] chain = "question_chain" -> "Answer this question thoroughly: "
      [] chain = "feedback_chain" -> "Acknowledge and process feedback: "
      [] chain = "general_chain"  -> "Standard response to: "

\* test_cases of multi_condition_routing
TestCases ==
    << [has_text |-> TRUE, expected |-> "urgent",
        text |-> <<"U", "R", "G", "E", "N", "T", ":", " ", "S", "e", "r", "v", "e", "r", " ", "i", "s", " ", "d", "o", "w", "n", "!">>],
       [has_text |-> TRUE, expected |-> "question",
        text |-> <<"H", "o", "w", " ", "d", "o", "e", "s", " ", "A", "I", " ", "w", "o", "r", "k", "?">>],
       [has_text |-> TRUE, expected |-> "feedback",
        text |-> <<"I", " ", "l", "o", "v", "e", " ", "t", "h", "i", "s", " ", "p", "r", "o", "d", "u", "c", "t", "!">>],
       [has_text |-> TRUE, expected |-> "general",
        text |-> <<"H", "e", "l", "l", "o", ",", " ", "j", "u", "s", "t", " ", "c", "h", "e", "c", "k", "i", "n", "g", " ", "i", "n", ".">>] >>

\* Pieces the other input texts are put together from.
Tokens ==
    { <<"U", "R", "G", "E", "N", "T">>,
    <<"a", "s", "a", "p">>,
    <<"H", "o", "w">>,
    <<"s", "h", "o", "w">>,
    <<"?">>,
    <<"l", "o", "v", "e">>,
    <<"H", "a", "t", "e">>,
    <<"h", "e", "l", "l", "o">>,
    <<" ">>,
    <<"W", "h", "e", "r", "e">> }

RECURSIVE Concat(_)
Concat(ts) == IF ts = << >> THEN << >> ELSE Head(ts) \o Concat(Tail(ts))

GeneratedTexts ==
    { Concat(ts) : ts \in UNION { [1..n -> Tokens] : n \in 0..MaxTokens } }

RouterInputs ==
    { TestCases[i] : i \in DOMAIN TestCases }
      \cup { [has_text |-> TRUE, expected |-> "", text |-> txt] : txt \in GeneratedTexts }
      \cup { [has_text |-> FALSE, expected |-> "", text |-> << >>] }

InitRouter ==
    /\ IdleMain
    /\ IdleRes
    /\ IdleState
    /\ IdleConv
    /\ IdleValid
    /\ rtIn \in RouterInputs
    /\ rtPc = "branch"
    /\ rtIdx = 1
    /\ rtEvaluated = << >>
    /\ rtInvoked = << >>
    /\ rtOut = NoResult

\* RunnableBranch.invoke: the condition of the next branch is evaluated; a true
\* condition selects its chain, and the default is selected after the last one.
RouterCondition ==
    /\ rtPc = "branch"
    /\ LET b == Branches[rtIdx]
           v == Cond(b.cond, rtIn)
       IN /\ rtEvaluated' = Append(rtEvaluated, [cond |-> b.cond, val |-> v])
          /\ IF v
               THEN /\ rtPc' = "chain"
                    /\ rtIdx' = rtIdx
               ELSE IF rtIdx < Len(Branches)
               THEN /\ rtPc' = "branch"
                    /\ rtIdx' = rtIdx + 1
               ELSE /\ rtPc' = "chain"
                    /\ rtIdx' = Len(Branches) + 1
    /\ UNCHANGED <<rtIn, rtInvoked, rtOut>>
    /\ UNCHANGED notRouter

\* The selected chain (prompt | chat | StrOutputParser) is invoked: the prompt
\* is formatted with the input's text (KeyError when it has none), the model
\* answers or fails, and router.invoke returns or raises accordingly.
RouterChain ==
    /\ rtPc = "chain"
    /\ LET chain == IF rtIdx <= Len(Branches) THEN Branches[rtIdx].chain ELSE DefaultChain
       IN /\ rtInvoked' = Append(rtInvoked,
                                 [chain |-> chain, template |-> ChainTemplate(chain),
                                  text |-> GetText(rtIn)])
          /\ IF ~rtIn.has_text
               THEN rtOut' = Raised("KeyError")
               ELSE \E o \in {Ret("response"), Raised("Exception")} : rtOut' = o
    /\ rtPc' = "done"
    /\ UNCHANGED <<rtIn, rtIdx, rtEvaluated>>
    /\ UNCHANGED notRouter

NextRouter ==
    \/ RouterCondition
    \/ RouterChain

SpecRouter == InitRouter /\ [][NextRouter]_vars

\* C7: the router evaluates is_urgent, is_question, is_feedback in that order
\* and stops at the first that is true; it invokes exactly one chain, the one
\* paired with that condition, or general_chain when none is true; the four
\* test inputs are routed to the chain their 'expected' field names.
C7_FirstMatchWins ==
    /\ Len(rtEvaluated) <= 3
    /\ \A i \in DOMAIN rtEvaluated :
          /\ rtEvaluated[i].cond = <<"is_urgent", "is_question", "is_feedback">>[i]
          /\ i < Len(rtEvaluated) => ~rtEvaluated[i].val
    /\ Len(rtInvoked) = (IF rtPc = "done" THEN 1 ELSE 0)
    /\ rtPc \in {"chain", "done"} =>
          \/ rtEvaluated[Len(rtEvaluated)].val
          \/ Len(rtEvaluated) = 3
    /\ rtPc = "done" =>
          LET last == rtEvaluated[Len(rtEvaluated)]
          IN /\ rtInvoked[1].chain =
                   (IF ~last.val THEN "general_chain"
                    ELSE <<"urgent_chain", "question_chain", "feedback_chain">>[Len(rtEvaluated)])
             /\ rtInvoked[1].text = GetText(rtIn)
             /\ rtIn.expected = "urgent"   => rtInvoked[1].chain = "urgent_chain"
             /\ rtIn.expected = "question" => rtInvoked[1].chain = "question_chain"
             /\ rtIn.expected = "feedback" => rtInvoked[1].chain = "feedback_chain"
             /\ rtIn.expected = "general"  => rtInvoked[1].chain = "general_chain"
             /\ (rtIn.has_text /\ rtIn.text = <<"s", "h", "o", "w">>)
                    => rtInvoked[1].chain = "general_chain"
             /\ (rtIn.has_text /\ rtIn.text = <<"H", "o", "w", "a", "s", "a", "p">>)
                    => rtInvoked[1].chain = "urgent_chain"
             /\ (rtIn.has_text /\ rtIn.text = <<"l", "o", "v", "e", "?">>)
                    => rtInvoked[1].chain = "question_chain"

C7_Witness ==
    /\ rtPc = "done"
    /\ rtIn.expected = "feedback"
    /\ Len(rtEvaluated) = 3
    /\ rtInvoked[1].chain = "feedback_chain"
    /\ rtOut = Ret("response")

-----------------------------------------------------------------------------
(* The Runnable classes that keep state: StreamingChat of                  *)
(* runnables/05_practical_runnables.py and CachingRunnable of              *)
(* runnables/04_advanced_runnables.py.  A text is a sequence of atoms.     *)

\* Largest number of calls made on a StreamingChat object.
MaxChatCalls == 4
\* Largest number of calls made on a CachingRunnable object.
MaxCacheCalls == 3

\* input.get("message", ""): the messages tried, the empty default among them.
Messages == { <<"hi">>, << >> }

\* chunk.content of chat.stream(prompt)
Chunks == { "c" }

\* chat.invoke(prompt).content: the text of a response of one chunk
Responses == { <<c>> : c \in Chunks }

\* The chunk sequences chat.stream(prompt) may produce before it ends: none,
\* one chunk, two chunks.
Streams == { << >> } \cup { <<c>> : c \in Chunks }
              \cup { <<c1, c2>> : c1 \in Chunks, c2 \in Chunks }

IsPrefix(p, s) == Len(p) <= Len(s) /\ SubSeq(s, 1, Len(p)) = p

LastN(h, n) == SubSeq(h, IF Len(h) > n THEN Len(h) - n + 1 ELSE 1, Len(h))

HistoryWindowAll(h) == h

\* self.history[-4:]
HistoryWindow(h) == LastN(h, 4)

ContextLineUserOnOdd(i, msg) == << IF i % 2 = 1 THEN "User: " ELSE "Assistant: " >> \o msg

\* f"{'User' if i % 2 == 0 else 'Assistant'}: {msg}", i counted from 0
ContextLine(i, msg) == << IF i % 2 = 0 THEN "User: " ELSE "Assistant: " >> \o msg

\* sep.join(parts)
RECURSIVE Join(_, _)
Join(parts, sep) ==
    IF parts = << >> THEN << >>
    ELSE IF Len(parts) = 1 THEN parts[1]
    ELSE parts[1] \o <<sep>> \o Join(Tail(parts), sep)

\* context, then f"{context}\nUser: {message}\nAssistant:"
BuildPrompt(h, msg) ==
    LET w == HistoryWindow(h)
        context == Join([i \in DOMAIN w |-> ContextLine(i - 1, w[i])], "\n")
    IN context \o <<"\n", "User: ">> \o msg \o <<"\n", "Assistant:">>

ChatEntry(msg, h) ==
    [msg |-> msg, hist |-> h, roles |-> histRoles, prompt |-> BuildPrompt(h, msg)]

\* The generator object a call of stream() returns: nothing of the body has
\* run yet.
NewGen(msg) == [state |-> "created", msg |-> msg, full |-> << >>]

\* The live generators without g.
Without(bag, g) == bag (-) SetToBag({g})

\* The Python values held by the input dicts (input: Dict[str, Any]): a str,
\* an int, the float n.0, or a dict of str keys and int values whose items are
\* kept in insertion order.
PyStr(s) == [t |-> "str", s |-> s, n |-> 0, d |-> << >>]
PyInt(n) == [t |-> "int", s |-> "", n |-> n, d |-> << >>]
PyFloat(n) == [t |-> "float", s |-> "", n |-> n, d |-> << >>]
PyDict(d) == [t |-> "dict", s |-> "", n |-> 0, d |-> d]

IsNumber(v) == v.t \in {"int", "float"}

\* a == b of Python: 1 == 1.0, and dicts are equal whatever the order of
\* their keys.
PyEq(a, b) ==
    IF IsNumber(a) /\ IsNumber(b) THEN a.n = b.n
    ELSE IF a.t = "str" /\ b.t = "str" THEN a.s = b.s
    ELSE IF a.t = "dict" /\ b.t = "dict"
           THEN {a.d[i] : i \in DOMAIN a.d} = {b.d[i] : i \in DOMAIN b.d}
    ELSE FALSE

\* repr(v): 'hello', 1, 1.0, {'a': 1, 'b': 2}
Repr(v) ==
    IF v.t = "str" THEN <<"'", v.s, "'">>
    ELSE IF v.t = "int" THEN <<ToString(v.n)>>
    ELSE IF v.t = "float" THEN <<ToString(v.n), ".0">>
    ELSE <<"{">>
           \o Join([i \in DOMAIN v.d |-> <<"'", v.d[i][1], "'", ": ", ToString(v.d[i][2])>>], ", ")
           \o <<"}">>

\* str(v), as an f-string formats it: a str without its quotes, any other
\* value as repr(v)
StrOf(v) == IF v.t = "str" THEN <<v.s>> ELSE Repr(v)

\* The values tried under the key 'data'; those tried in dicts of two keys.
DataValues ==
    { PyStr("hello"), PyStr("world"), PyInt(1), PyFloat(1),
      PyDict(<< <<"a", 1>>, <<"b", 2>> >>), PyDict(<< <<"b", 2>>, <<"a", 1>> >>) }
PairValues == { PyStr("hello"), PyInt(1), PyFloat(1) }

\* The input dicts tried on CachingRunnable: sequences of (key, value) items in
\* insertion order, with distinct keys.
CacheInputs ==
    { << <<"data", v>> >> : v \in DataValues }
      \cup { << <<"id", PyStr("hello")>> >> }
      \cup { << <<"data", v>>, <<"id", PyStr("world")>> >> : v \in PairValues }
      \cup { << <<"id", PyStr("world")>>, <<"data", v>> >> : v \in PairValues }

\* The order of str keys: "data" < "id"
KeyRank(k) == IF k = "data" THEN 1 ELSE 2

SortItemsInsertionOrder(x) == x

\* sorted(input.items())
SortItems(x) ==
    IF Len(x) = 2 /\ KeyRank(x[1][1]) > KeyRank(x[2][1]) THEN << x[2], x[1] >> ELSE x

\* repr() of a (key, value) tuple
ReprItem(it) == <<"('", it[1], "', ">> \o Repr(it[2]) \o <<")">>

\* cache_key = str(sorted(input.items())), e.g. [('data', 1.0), ('id', 'world')]
CacheKey(x) ==
    LET items == SortItems(x)
    IN <<"[">> \o Join([i \in DOMAIN items |-> ReprItem(items[i])], ", ") \o <<"]">>

HasKey(x, k) == \E i \in DOMAIN x : x[i][1] = k
Lookup(x, k) == x[CHOOSE i \in DOMAIN x : x[i][1] = k][2]

\* expensive_operation: lambda x: f"Processed: {x['data']}"
Expensive(x) ==
    IF HasKey(x, "data") THEN Ret(<<"Processed: ">> \o StrOf(Lookup(x, "data")))
    ELSE Raised("KeyError")

\* One call of CachingRunnable.invoke as the caller sees it: the input, what
\* came back, and whether self.runnable.invoke ran.
CacheCall(x, out, wrapped) == [op |-> "invoke", input |-> x, out |-> out, wrapped |-> wrapped]

\* One call of CachingRunnable.clear_cache.
CacheCleared == [op |-> "clear", input |-> << >>, out |-> NoResult, wrapped |-> FALSE]

InitState ==
    /\ IdleMain
    /\ IdleRes
    /\ IdleRouter
    /\ IdleConv
    /\ IdleValid
    /\ stObj \in {"chat", "cache"}
    /\ stCalls = 0
    /\ history = << >>
    /\ histRoles = << >>
    /\ gens = EmptyBag
    /\ chatLog = {}
    /\ cache = << >>
    /\ cacheLog = {}
    /\ cacheTrace = << >>

\* StreamingChat.invoke: the prompt is built from the history window and sent;
\* the history grows by the message and the response unless the model fails.
ChatInvoke ==
    /\ stObj = "chat"
    /\ stCalls < MaxChatCalls
    /\ \E msg \in Messages :
         /\ chatLog' = chatLog \cup {ChatEntry(msg, history)}
         /\ \/ /\ \E r \in Responses : history' = history \o <<msg, r>>
               /\ histRoles' = histRoles \o <<"user", "assistant">>
            \/ /\ history' = history
               /\ histRoles' = histRoles
    /\ stCalls' = stCalls + 1
    /\ UNCHANGED <<stObj, gens, cache, cacheLog, cacheTrace>>
    /\ UNCHANGED notState

\* StreamingChat.stream is called: a generator object is made, nothing runs
\* yet.  Generators made by earlier calls may still be alive.
ChatStreamCall ==
    /\ stObj = "chat"
    /\ stCalls < MaxChatCalls
    /\ \E msg \in Messages : gens' = gens (+) SetToBag({NewGen(msg)})
    /\ stCalls' = stCalls + 1
    /\ UNCHANGED <<stObj, history, histRoles, chatLog, cache, cacheLog, cacheTrace>>
    /\ UNCHANGED notState

\* next() on one of the live generators: on the first one the prompt is built
\* from the history as it is now and sent; then the model streams a chunk
\* (yielded), ends (the history grows by the message and the full response),
\* or fails.
ChatStreamNext ==
    /\ stObj = "chat"
    /\ \E g \in BagToSet(gens) :
         /\ chatLog' = IF g.state = "created"
                         THEN chatLog \cup {ChatEntry(g.msg, history)}
                         ELSE chatLog
         /\ \/ /\ \E c \in Chunks :
                    /\ \E s \in Streams : IsPrefix(g.full \o <<c>>, s)
                    /\ gens' = Without(gens, g)
                                (+) SetToBag({[g EXCEPT !.state = "yielded", !.full = @ \o <<c>>]})
               /\ UNCHANGED <<history, histRoles>>
            \/ /\ g.full \in Streams
               /\ history' = history \o <<g.msg, g.full>>
               /\ histRoles' = histRoles \o <<"user", "assistant">>
               /\ gens' = Without(gens, g)
            \/ /\ UNCHANGED <<history, histRoles>>
               /\ gens' = Without(gens, g)
    /\ UNCHANGED <<stObj, stCalls, cache, cacheLog, cacheTrace>>
    /\ UNCHANGED notState

\* The consumer drops a generator before it is exhausted.
ChatStreamAbandon ==
    /\ stObj = "chat"
    /\ \E g \in BagToSet(gens) : gens' = Without(gens, g)
    /\ UNCHANGED <<stObj, stCalls, history, histRoles, chatLog, cache, cacheLog, cacheTrace>>
    /\ UNCHANGED notState

\* CachingRunnable.invoke
CacheInvoke ==
    /\ stObj = "cache"
    /\ stCalls < MaxCacheCalls
    /\ \E x \in CacheInputs :
         LET key == CacheKey(x)
         IN IF key \in DOMAIN cache
              THEN /\ cacheLog' = cacheLog \cup {[input |-> x, out |-> Ret(cache[key]), hit |-> TRUE]}
                   /\ cacheTrace' = Append(cacheTrace, CacheCall(x, Ret(cache[key]), FALSE))
                   /\ cache' = cache
              ELSE LET r == Expensive(x)
                   IN /\ cacheLog' = cacheLog \cup {[input |-> x, out |-> r, hit |-> FALSE]}
                      /\ cacheTrace' = Append(cacheTrace, CacheCall(x, r, TRUE))
                      /\ cache' = IF r.kind = "ret"
                                    THEN [k \in DOMAIN cache \cup {key} |->
                                             IF k = key THEN r.val ELSE cache[k]]
                                    ELSE cache
    /\ stCalls' = stCalls + 1
    /\ UNCHANGED <<stObj, history, histRoles, gens, chatLog>>
    /\ UNCHANGED notState

\* CachingRunnable.clear_cache
CacheClear ==
    /\ stObj = "cache"
    /\ cache # << >>
    /\ cache' = << >>
    /\ cacheTrace' = Append(cacheTrace, CacheCleared)
    /\ UNCHANGED <<stObj, stCalls, history, histRoles, gens, chatLog, cacheLog>>
    /\ UNCHANGED notState

NextState ==
    \/ ChatInvoke
    \/ ChatStreamCall
    \/ ChatStreamNext
    \/ ChatStreamAbandon
    \/ CacheInvoke
    \/ CacheClear

SpecState == InitState /\ [][NextState]_vars

-----------------------------------------------------------------------------
(* CachingRunnable as its caller sees it.                                  *)

\* Two input dicts have the same items, whatever the order of their keys:
\* the same keys, with equal values (x == y of Python).
SameItems(x, y) ==
    /\ {x[i][1] : i \in DOMAIN x} = {y[i][1] : i \in DOMAIN y}
    /\ \A i \in DOMAIN x : \A j \in DOMAIN y :
          x[i][1] = y[j][1] => PyEq(x[i][2], y[j][2])

\* Two input dicts have items that print the same, whatever the order of
\* their keys: the same keys, with values of the same repr().
SamePrintedItems(x, y) ==
    {<<x[i][1], Repr(x[i][2])>> : i \in DOMAIN x} = {<<y[i][1], Repr(y[i][2])>> : i \in DOMAIN y}

\* The calls before call j that returned a value for an input with the same
\* items as call j's, with no clear_cache() in between.
EarlierReturns(j) ==
    { i \in 1..(j - 1) :
        /\ cacheTrace[i].op = "invoke"
        /\ cacheTrace[i].out.kind = "ret"
        /\ SameItems(cacheTrace[i].input, cacheTrace[j].input)
        /\ \A k \in (i + 1)..(j - 1) : cacheTrace[k].op # "clear" }

\* The same, for an input whose items print the same as call j's.
EarlierPrintedReturns(j) ==
    { i \in 1..(j - 1) :
        /\ cacheTrace[i].op = "invoke"
        /\ cacheTrace[i].out.kind = "ret"
        /\ SamePrintedItems(cacheTrace[i].input, cacheTrace[j].input)
        /\ \A k \in (i + 1)..(j - 1) : cacheTrace[k].op # "clear" }

\* C11 as stated: once invoke(x) has returned v, every later invoke of an
\* input with the same items (in any key order) returns v without invoking
\* the wrapped runnable, until clear_cache() is called; an invoke of an input
\* whose items no call since the last clear_cache() returned a value for is a
\* cache miss and invokes the wrapped runnable.
C11_CacheHitsUntilCleared ==
    \A j \in DOMAIN cacheTrace :
        cacheTrace[j].op = "invoke" =>
            IF EarlierReturns(j) # {}
              THEN /\ ~cacheTrace[j].wrapped
                   /\ \A i \in EarlierReturns(j) : cacheTrace[j].out = cacheTrace[i].out
              ELSE cacheTrace[j].wrapped

\* C11 amended: the cache goes by how the items print.  Once invoke(x) has
\* returned v, every later invoke of an input whose items print the same (the
\* same keys, values of the same repr(), in any key order) returns v without
\* invoking the wrapped runnable, until clear_cache() is called; an invoke of
\* any other input is a cache miss and invokes the wrapped runnable, also when
\* its items are equal to those of an earlier input but print differently
\* (1 and 1.0, a nested dict with its keys in another order).
C11_CacheHitsOnPrintedItems ==
    \A j \in DOMAIN cacheTrace :
        cacheTrace[j].op = "invoke" =>
            IF EarlierPrintedReturns(j) # {}
              THEN /\ ~cacheTrace[j].wrapped
                   /\ \A i \in EarlierPrintedReturns(j) : cacheTrace[j].out = cacheTrace[i].out
              ELSE cacheTrace[j].wrapped

\* A hit on an input whose keys come in the other order, then clear_cache(),
\* then a miss on the same items.
C11_Witness ==
    /\ Len(cacheTrace) = 4
    /\ cacheTrace[1].op = "invoke" /\ cacheTrace[1].wrapped
    /\ Len(cacheTrace[1].input) = 2
    /\ cacheTrace[1].out.kind = "ret"
    /\ cacheTrace[2].op = "invoke" /\ ~cacheTrace[2].wrapped
    /\ cacheTrace[2].input # cacheTrace[1].input
    /\ SamePrintedItems(cacheTrace[2].input, cacheTrace[1].input)
    /\ cacheTrace[2].out = cacheTrace[1].out
    /\ cacheTrace[3].op = "clear"
    /\ cacheTrace[4].op = "invoke" /\ cacheTrace[4].wrapped
    /\ SamePrintedItems(cacheTrace[4].input, cacheTrace[1].input)

-----------------------------------------------------------------------------
(* StreamingChat: the shape of the history and of the prompt.              *)

MinOf(a, b) == IF a < b THEN a ELSE b

RoleLabel(role) == IF role = "user" THEN "User: " ELSE "Assistant: "

\* The prompt the claim describes for a request: the (at most 4) most recent
\* history entries, oldest first, each labelled by who wrote it, then the new
\* user message, then the open 'Assistant:' line.
DescribedPrompt(e) ==
    LET n == Len(e.hist)
        k == MinOf(4, n)
        line(i) == << RoleLabel(e.roles[n - k + i]) >> \o e.hist[n - k + i]
    IN Join([i \in 1..k |-> line(i)], "\n")
         \o <<"\n", "User: ">> \o e.msg \o <<"\n", "Assistant:">>

\* C12: StreamingChat.history is a sequence of (user message, assistant
\* response) pairs, so its length is even; and for every invoke() or stream()
\* call, after any completed, failed or abandoned calls, the prompt sent holds
\* the at most 4 most recent history entries in chronological order, user
\* messages labelled 'User' and responses labelled 'Assistant', followed by the
\* new user message.
C12_HistoryPairsAndWindow ==
    /\ Len(history) % 2 = 0
    /\ Len(histRoles) = Len(history)
    /\ \A i \in DOMAIN histRoles :
          histRoles[i] = IF i % 2 = 1 THEN "user" ELSE "assistant"
    /\ \A e \in chatLog : e.prompt = DescribedPrompt(e)

\* Four calls: three completed, one of them a stream() of two chunks, and the
\* fourth is a stream() whose request was built on the 6 history entries (so
\* the two oldest are left out).  No request was built on 4 entries: two
\* generators of stream() were alive at the same time and both read the
\* history before either appended to it.
C12_Witness ==
    /\ stObj = "chat"
    /\ stCalls = 4
    /\ Len(history) = 6
    /\ \E i \in DOMAIN history : history[i] = <<"c", "c">>
    /\ \E g \in BagToSet(gens) :
          /\ g.state = "yielded"
          /\ \E e \in chatLog : e.msg = g.msg /\ Len(e.hist) = 6
    /\ \A e \in chatLog : Len(e.hist) # 4

-----------------------------------------------------------------------------
(* The conversation loops: interactive_chat_session (models/02),           *)
(* chatbot_with_memory and multi_turn_conversation (prompts/02).           *)

\* Largest number of questions in the list the loop runs over (the lists of
\* the source have 3, 3 and 4).
MaxQuestions == 4

SystemMessage(c) == [type |-> "system", content |-> c]
HumanMessage(c) == [type |-> "human", content |-> c]
AIMessage(c) == [type |-> "ai", content |-> c]

\* The system message each function starts its message list with.
SystemOf(fn) ==
    SystemMessage(<< IF fn = "interactive" THEN "You are TechBuddy"
                     ELSE IF fn = "memory" THEN "You are TravelBot"
                     ELSE "You are a helpful programming tutor" >>)

\* The question texts tried: an ordinary one, 'quit' in two casings, and
\* 'quit' followed by a space.
QuestionTexts ==
    { <<"h", "i">>, <<"q", "u", "i", "t">>, <<"Q", "u", "I", "T">>,
      <<"q", "u", "i", "t", " ">> }

RECURSIVE ListsUpTo(_, _)
ListsUpTo(S, n) ==
    IF n = 0 THEN { << >> }
    ELSE LET shorter == ListsUpTo(S, n - 1)
         IN shorter \cup { Append(l, x) : l \in shorter, x \in S }

QuestionLists == ListsUpTo(QuestionTexts, MaxQuestions)

\* response.content of chat.invoke
Replies == { <<"o", "k">> }

IsQuitCaseSensitive(question) == question = <<"q", "u", "i", "t">>

\* question.lower() == 'quit'
IsQuit(question) == Lower(question) = <<"q", "u", "i", "t">>

BuildMessagesNoHistory(fn, hist, q) == << SystemOf(fn), HumanMessage(q) >>

\* chatbot_with_memory: template.format_messages(chat_history=history,
\* user_message=user_msg); multi_turn_conversation: the system message,
\* messages.extend(history), messages.append(HumanMessage(...)).
BuildMessages(fn, hist, q) == << SystemOf(fn) >> \o hist \o << HumanMessage(q) >>

InitConv ==
    /\ IdleMain
    /\ IdleRes
    /\ IdleRouter
    /\ IdleState
    /\ IdleValid
    /\ cvFn \in {"interactive", "memory", "multi"}
    /\ cvQuestions \in QuestionLists
    /\ cvIdx = 1
    /\ cvPc = "loop"
    /\ cvHistory = IF cvFn = "interactive" THEN << SystemOf(cvFn) >> ELSE << >>
    /\ cvMessages = << >>
    /\ cvCalls = << >>

\* interactive_chat_session: the question is 'quit': break.
ConvQuit ==
    /\ cvPc = "loop"
    /\ cvIdx <= Len(cvQuestions)
    /\ cvFn = "interactive"
    /\ IsQuit(cvQuestions[cvIdx])
    /\ cvPc' = "done"
    /\ UNCHANGED <<cvFn, cvQuestions, cvIdx, cvHistory, cvMessages, cvCalls>>
    /\ UNCHANGED notConv

\* The loop body up to chat.invoke.  interactive_chat_session appends the
\* HumanMessage to conversation_history and hands that list to the model; the
\* other two build a fresh list: system message, history, HumanMessage.
ConvAsk ==
    /\ cvPc = "loop"
    /\ cvIdx <= Len(cvQuestions)
    /\ LET q == cvQuestions[cvIdx]
       IN IF cvFn = "interactive"
            THEN /\ ~IsQuit(q)
                 /\ cvHistory' = Append(cvHistory, HumanMessage(q))
                 /\ cvMessages' = cvHistory'
            ELSE /\ cvHistory' = cvHistory
                 /\ cvMessages' = BuildMessages(cvFn, cvHistory, q)
    /\ cvPc' = "call"
    /\ UNCHANGED <<cvFn, cvQuestions, cvIdx, cvCalls>>
    /\ UNCHANGED notConv

\* chat.invoke returns: the reply goes to the history (after the HumanMessage,
\* which the other two functions append only now), and the loop moves on.
ConvModelReturn ==
    /\ cvPc = "call"
    /\ \E r \in Replies :
         /\ cvCalls' = Append(cvCalls, [messages |-> cvMessages, out |-> Ret(r)])
         /\ cvHistory' = IF cvFn = "interactive"
                           THEN Append(cvHistory, AIMessage(r))
                           ELSE cvHistory \o << HumanMessage(cvQuestions[cvIdx]), AIMessage(r) >>
    /\ cvIdx' = cvIdx + 1
    /\ cvPc' = "loop"
    /\ UNCHANGED <<cvFn, cvQuestions, cvMessages>>
    /\ UNCHANGED notConv

\* chat.invoke raises: nothing in the loop catches it, the function ends.
ConvModelRaise ==
    /\ cvPc = "call"
    /\ cvCalls' = Append(cvCalls, [messages |-> cvMessages, out |-> Raised("Exception")])
    /\ cvPc' = "raised"
    /\ UNCHANGED <<cvFn, cvQuestions, cvIdx, cvHistory, cvMessages>>
    /\ UNCHANGED notConv

\* The list is exhausted: the loop ends and the summary is printed.
ConvLoopEnd ==
    /\ cvPc = "loop"
    /\ cvIdx > Len(cvQuestions)
    /\ cvPc' = "done"
    /\ UNCHANGED <<cvFn, cvQuestions, cvIdx, cvHistory, cvMessages, cvCalls>>
    /\ UNCHANGED notConv

NextConv ==
    \/ ConvQuit
    \/ ConvAsk
    \/ ConvModelReturn
    \/ ConvModelRaise
    \/ ConvLoopEnd

SpecConv == InitConv /\ [][NextConv]_vars

\* A question equal to 'quit' whatever the case of its letters.
EqualsQuitIgnoringCase(q) ==
    /\ Len(q) = 4
    /\ q[1] \in {"q", "Q"} /\ q[2] \in {"u", "U"}
    /\ q[3] \in {"i", "I"} /\ q[4] \in {"t", "T"}

\* The number of questions before the first 'quit' (all of them if none is).
BeforeQuit(qs) ==
    IF \E i \in DOMAIN qs : EqualsQuitIgnoringCase(qs[i])
      THEN (CHOOSE i \in DOMAIN qs :
              /\ EqualsQuitIgnoringCase(qs[i])
              /\ \A j \in 1..(i - 1) : ~EqualsQuitIgnoringCase(qs[j])) - 1
      ELSE Len(qs)

\* The number of model calls that returned.
Answered == Cardinality({ j \in DOMAIN cvCalls : cvCalls[j].out.kind = "ret" })

\* The first m exchanges as a list of messages: question 1, reply 1, ...
Exchanges(m) ==
    [ i \in 1..(2 * m) |->
        IF i % 2 = 1 THEN HumanMessage(cvQuestions[(i + 1) \div 2])
        ELSE AIMessage(cvCalls[i \div 2].out.val) ]

\* C13: interactive_chat_session processes the questions in order until the
\* first one equal to 'quit' (case-insensitive); that question and the later
\* ones are never sent to the model nor added to the history; for each earlier
\* question exactly one model call is made, with the whole history so far
\* ending in that question's HumanMessage, and the AIMessage reply is appended;
\* when the function finishes the history has 1 + 2 x (questions before
\* 'quit') messages.
C13_QuitEndsSession ==
    cvFn = "interactive" =>
        LET n == BeforeQuit(cvQuestions)
            c == Len(cvCalls)
            waiting == IF cvPc \in {"call", "raised"}
                         THEN << HumanMessage(cvQuestions[Answered + 1]) >>
                         ELSE << >>
        IN /\ c <= n
           /\ \A j \in 1..(c - 1) : cvCalls[j].out.kind = "ret"
           /\ \A j \in 1..c :
                cvCalls[j].messages =
                    << SystemOf("interactive") >> \o Exchanges(j - 1)
                        \o << HumanMessage(cvQuestions[j]) >>
           /\ cvHistory = << SystemOf("interactive") >> \o Exchanges(Answered) \o waiting
           /\ cvPc = "done" =>
                /\ c = n
                /\ Answered = n
                /\ Len(cvHistory) = 1 + 2 * n

\* A finished session over three questions whose second is 'QuIT': one model
\* call, three messages in the history, the third question never asked.
C13_Witness ==
    /\ cvFn = "interactive"
    /\ cvPc = "done"
    /\ Len(cvQuestions) = 3
    /\ cvQuestions[1] = <<"h", "i">>
    /\ cvQuestions[2] = <<"Q", "u", "I", "T">>
    /\ cvQuestions[3] = <<"h", "i">>
    /\ Len(cvCalls) = 1
    /\ Len(cvHistory) = 3

\* C14: in chatbot_with_memory and multi_turn_conversation, at turn k the model
\* is invoked with the system message, then the 2(k-1) earlier history
\* messages in chronological order, then the current user message; after each
\* turn the history has exactly 2k entries alternating HumanMessage,
\* AIMessage, so user and bot messages are equal in number and the total is
\* twice the number of turns.
C14_FullHistoryEachTurn ==
    cvFn \in {"memory", "multi"} =>
        LET humans == { i \in DOMAIN cvHistory : cvHistory[i].type = "human" }
            ais == { i \in DOMAIN cvHistory : cvHistory[i].type = "ai" }
        IN /\ \A k \in 1..(Len(cvCalls) - 1) : cvCalls[k].out.kind = "ret"
           /\ \A k \in DOMAIN cvCalls :
                /\ Len(cvCalls[k].messages) = 2 * k
                /\ cvCalls[k].messages =
                      << SystemOf(cvFn) >> \o Exchanges(k - 1)
                          \o << HumanMessage(cvQuestions[k]) >>
           /\ Len(cvHistory) = 2 * Answered
           /\ cvHistory = Exchanges(Answered)
           /\ \A i \in DOMAIN cvHistory :
                cvHistory[i].type = IF i % 2 = 1 THEN "human" ELSE "ai"
           /\ Cardinality(humans) = Cardinality(ais)
           /\ Cardinality(humans) + Cardinality(ais) = Len(cvHistory)
           /\ cvPc = "done" => Answered = Len(cvQuestions)

\* chatbot_with_memory after its four turns: the fourth call carried the
\* system message, six history messages and the fourth user message.
C14_Witness ==
    /\ cvFn = "memory"
    /\ cvPc = "done"
    /\ Len(cvCalls) = 4
    /\ Len(cvCalls[4].messages) = 8
    /\ Len(cvHistory) = 8

-----------------------------------------------------------------------------
(* The parser cascades of structured_output/03_advanced_structured.py:     *)
(* validation_and_fallbacks and error_handling_strategies.                 *)

\* Largest number of test cases in the list the loop runs over (the lists of
\* the source have 2 and 3).
MaxCases == 3

Digits == <<"0", "1", "2", "3", "4", "5", "6", "7", "8", "9">>

\* str.isalnum(), on ASCII
IsAlnum(t) ==
    /\ t # << >>
    /\ \A i \in DOMAIN t :
          \/ \E k \in DOMAIN UpperChars : UpperChars[k] = t[i]
          \/ \E k \in DOMAIN LowerChars : LowerChars[k] = t[i]
          \/ \E k \in DOMAIN Digits : Digits[k] = t[i]

\* A text handed to a parser: whether it is JSON and, if so, the object.
Doc(obj) == [json |-> TRUE, obj |-> obj]
NotJson == [json |-> FALSE, obj |-> [raw |-> <<"This is not JSON">>]]

LongBio == [i \in 1..201 |-> "x"]

\* The completions tried in validation_and_fallbacks: a valid profile (with
\* an upper-case letter in the email), profiles breaking one or several of
\* the strict rules, a profile with a field missing, and text that is not JSON.
ProfileCompletions ==
    { Doc([username |-> <<"j", "o", "e", "1">>, email |-> <<"J", "@", "x">>, age |-> 25,
           bio |-> <<"d", "e", "v">>]),
      Doc([username |-> <<"a", "b">>, email |-> <<"b", "a", "d">>, age |-> 150,
           bio |-> <<"t">>]),
      Doc([username |-> <<"j", "_", "d">>, email |-> <<"j", "@", "x">>, age |-> 13,
           bio |-> << >>]),
      Doc([username |-> <<"j", "o", "e">>, email |-> <<"j", "@", "x">>, age |-> 120,
           bio |-> LongBio]),
      Doc([username |-> <<"j", "o", "e">>, email |-> <<"j", "@", "x">>, age |-> 30]),
      NotJson }

\* The outputs tried in error_handling_strategies: the three malformed ones of
\* the source and a valid one.
ScoreOutputs ==
    { Doc([subject |-> <<"Math">>, score |-> 150]),
      Doc([subject |-> <<"English">>]),
      NotJson,
      Doc([subject |-> <<"Math">>, score |-> 100]) }

HasFields(obj, fields) == fields \subseteq DOMAIN obj

\* UserProfile: the Field constraints and the two validators.
ValidUserProfile(o) ==
    /\ HasFields(o, {"username", "email", "age", "bio"})
    /\ Len(o.username) >= 3 /\ Len(o.username) <= 20
    /\ IsAlnum(o.username)
    /\ Contains(o.email, <<"@">>)
    /\ o.age >= 13 /\ o.age <= 120
    /\ Len(o.bio) <= 200

\* strict_parser.parse: PydanticOutputParser over UserProfile
StrictParse(d) ==
    IF d.json /\ ValidUserProfile(d.obj)
      THEN Ret([model |-> "UserProfile", username |-> d.obj.username,
                email |-> Lower(d.obj.email), age |-> d.obj.age, bio |-> d.obj.bio])
      ELSE Raised("OutputParserException")

\* lenient_parser.parse: PydanticOutputParser over BasicProfile
LenientParse(d) ==
    IF d.json /\ HasFields(d.obj, {"username", "email", "age", "bio"})
      THEN Ret([model |-> "BasicProfile", username |-> d.obj.username,
                email |-> d.obj.email, age |-> d.obj.age, bio |-> d.obj.bio])
      ELSE Raised("OutputParserException")

\* parser.parse of error_handling_strategies: PydanticOutputParser over Score
ScoreParse(d) ==
    IF /\ d.json
       /\ HasFields(d.obj, {"subject", "score"})
       /\ d.obj.score >= 0 /\ d.obj.score <= 100
      THEN Ret([model |-> "Score", subject |-> d.obj.subject, score |-> d.obj.score])
      ELSE Raised("OutputParserException")

\* result = {"subject": "Unknown", "score": 0}
DefaultScore == [model |-> "dict", subject |-> <<"Unknown">>, score |-> 0]

\* The parser the function tries first.
FirstParse(fn, d) == IF fn = "cascade" THEN StrictParse(d) ELSE ScoreParse(d)

\* `except Exception as e` / `except Exception as e2`
ValidCatches(e) == IsSubclass(e, "Exception")

Unbound == [kind |-> "unbound"]

\* One finished test case: how each parser ended ("ok", "raise" or "skipped"),
\* where the value of `result` was assigned in this test case ("strict",
\* "lenient", "default" or "none"), and the value `result` holds at its end.
CaseDone(strict, lenient, source, res) ==
    [strict |-> strict, lenient |-> lenient, source |-> source, result |-> res]

InitValid ==
    /\ IdleMain
    /\ IdleRes
    /\ IdleRouter
    /\ IdleState
    /\ IdleConv
    /\ vFn \in {"cascade", "strategies"}
    /\ vInputs \in ListsUpTo(IF vFn = "cascade" THEN ProfileCompletions ELSE ScoreOutputs,
                             MaxCases)
    /\ vIdx = 1
    /\ vPc = "loop"
    /\ vResult = Unbound
    /\ vLog = << >>

\* The loop takes the next test case.  validation_and_fallbacks first gets the
\* completion from chain.invoke, which returns here.
ValidNextCase ==
    /\ vPc = "loop"
    /\ vIdx <= Len(vInputs)
    /\ vPc' = "strict"
    /\ UNCHANGED <<vFn, vInputs, vIdx, vResult, vLog>>
    /\ UNCHANGED notValid

\* chain.invoke raises: nothing in the loop catches it, the function ends.
ValidInvokeRaise ==
    /\ vPc = "loop"
    /\ vIdx <= Len(vInputs)
    /\ vFn = "cascade"
    /\ vPc' = "raised"
    /\ UNCHANGED <<vFn, vInputs, vIdx, vResult, vLog>>
    /\ UNCHANGED notValid

\* The first parser succeeds: its value is assigned to result.
ValidStrictOk ==
    /\ vPc = "strict"
    /\ LET r == FirstParse(vFn, vInputs[vIdx])
       IN /\ r.kind = "ret"
          /\ vResult' = r.val
          /\ vLog' = Append(vLog, CaseDone("ok", "skipped", "strict", r.val))
    /\ vIdx' = vIdx + 1
    /\ vPc' = "loop"
    /\ UNCHANGED <<vFn, vInputs>>
    /\ UNCHANGED notValid

\* validation_and_fallbacks: the strict parser raises, the except block goes on
\* to the lenient parser.
ValidStrictRaise ==
    /\ vPc = "strict"
    /\ vFn = "cascade"
    /\ LET r == FirstParse(vFn, vInputs[vIdx])
       IN r.kind = "raise" /\ ValidCatches(r.val)
    /\ vPc' = "lenient"
    /\ UNCHANGED <<vFn, vInputs, vIdx, vResult, vLog>>
    /\ UNCHANGED notValid

\* error_handling_strategies: the parser raises, the except block assigns the
\* default value.
ValidDefault ==
    /\ vPc = "strict"
    /\ vFn = "strategies"
    /\ LET r == FirstParse(vFn, vInputs[vIdx])
       IN r.kind = "raise" /\ ValidCatches(r.val)
    /\ vResult' = DefaultScore
    /\ vLog' = Append(vLog, CaseDone("raise", "skipped", "default", DefaultScore))
    /\ vIdx' = vIdx + 1
    /\ vPc' = "loop"
    /\ UNCHANGED <<vFn, vInputs>>
    /\ UNCHANGED notValid

\* The lenient parser succeeds: its value is assigned to result.
ValidLenientOk ==
    /\ vPc = "lenient"
    /\ LET r == LenientParse(vInputs[vIdx])
       IN /\ r.kind = "ret"
          /\ vResult' = r.val
          /\ vLog' = Append(vLog, CaseDone("raise", "ok", "lenient", r.val))
    /\ vIdx' = vIdx + 1
    /\ vPc' = "loop"
    /\ UNCHANGED <<vFn, vInputs>>
    /\ UNCHANGED notValid

\* The lenient parser raises too: the inner except block prints a line and
\* assigns nothing, so result keeps what it held before this test case.
ValidLenientRaise ==
    /\ vPc = "lenient"
    /\ LET r == LenientParse(vInputs[vIdx])
       IN r.kind = "raise" /\ ValidCatches(r.val)
    /\ vLog' = Append(vLog, CaseDone("raise", "raise", "none", vResult))
    /\ vIdx' = vIdx + 1
    /\ vPc' = "loop"
    /\ UNCHANGED <<vFn, vInputs, vResult>>
    /\ UNCHANGED notValid

\* The list is exhausted: the loop ends and the closing lines are printed.
ValidLoopEnd ==
    /\ vPc = "loop"
    /\ vIdx > Len(vInputs)
    /\ vPc' = "done"
    /\ UNCHANGED <<vFn, vInputs, vIdx, vResult, vLog>>
    /\ UNCHANGED notValid

NextValid ==
    \/ ValidNextCase
    \/ ValidInvokeRaise
    \/ ValidStrictOk
    \/ ValidStrictRaise
    \/ ValidDefault
    \/ ValidLenientOk
    \/ ValidLenientRaise
    \/ ValidLoopEnd

SpecValid == InitValid /\ [][NextValid]_vars

\* C15: the cascade is Strict -> Lenient -> Default: in every test case the
\* strict parser is tried first and its result is used if it succeeds, the
\* lenient parser is tried only if the strict one raised, and if the lenient
\* parser raises too a default value is used, so every test case ends with a
\* result.
C15_CascadeEndsWithResult ==
    \A i \in DOMAIN vLog :
        LET c == vLog[i]
        IN /\ c.strict = "ok" => (c.source = "strict" /\ c.lenient = "skipped")
           /\ c.lenient # "skipped" => c.strict = "raise"
           /\ (c.strict = "raise" /\ c.lenient # "ok") => c.source = "default"
           /\ c.source # "none"

====
